---- MODULE Spec2Model ----
(***************************************************************************)
(* A model of mirgecom's time-stepping and checkpoint control logic:       *)
(*   mirgecom/simutil.py   check_step, inviscid_sim_timestep,              *)
(*                         sim_checkpoint                                  *)
(*   mirgecom/steppers.py  euler_flow_stepper (with its write_soln)        *)
(*   examples/pulse-mpi.py main                                            *)
(*                                                                         *)
(* Times, time steps, errors and tolerances are floating-point numbers in  *)
(* the code.  The model measures them in integer ticks and computes        *)
(* exactly, so floating-point rounding is outside the model.  The arrays   *)
(* (state, reference solution, derived quantities) are opaque to the       *)
(* control logic; they appear only through the per-field maximum absolute  *)
(* error of the state against the reference solution.                      *)
(***************************************************************************)
EXTENDS Integers, Sequences, FiniteSets

VARIABLES
    cs,          \* one call of check_step: its arguments and its return value
    ts,          \* one call of inviscid_sim_timestep: arguments and return value
    \* one collective call of sim_checkpoint, made by every process
    ck_args,     \* the arguments all processes pass
    ck_pc,       \* per process: "idle", "call" or "returned"
    ck_ret,      \* per process: the returned checkpoint_status
    ck_maxerr,   \* per process: the local maxerr, once it was computed
    ck_evals,    \* per process: calls of eos, exact_soln and compare_states
    logger,      \* the lines written to the logger, in order
    viz,         \* the dumps handed to make_output_dump, in order
    \* one run of euler_flow_stepper
    st_par,      \* parameters: time, tfinal, dt, cfl, constantcfl, nstatus, exittol
    st_pc,       \* "idle", "entry", "loop", "status", "advance", "final",
                 \* "check", "returned" or "raised"
    st_t,        \* t
    st_istep,    \* istep
    st_dt,       \* dt
    st_cfl,      \* cfl, the ratio num / den
    st_sdt,      \* sdt
    st_fields,   \* fields, as its per-field error against initializer(t, nodes)
    st_maxerr,   \* maxerr, set after the loop
    st_ret,      \* the value returned
    st_nrk4,     \* calls of rk4_step so far
    st_out,      \* what was logged and written, in order
    \* one process of the example driver (pulse-mpi.py main)
    dr_pc,       \* "idle", "loop", "checkpoint", "step", "final", "validate",
                 \* "exited" or "abnormal"
    dr_rank,     \* rank: comm.Get_rank() of the process
    dr_istep,    \* advance_state's step counter
    dr_t,        \* advance_state's clock
    dr_dt,       \* advance_state's dt of the iteration
    current_step, \* main's current_step
    current_t,   \* main's current_t
    dr_caught,   \* whether main caught ExactSolutionMismatch
    dr_final     \* the arguments of main's final my_checkpoint calls, in order

utilVars == <<cs, ts>>
ckVars == <<ck_args, ck_pc, ck_ret, ck_maxerr, ck_evals, logger, viz>>
stVars == <<st_par, st_pc, st_t, st_istep, st_dt, st_cfl, st_sdt, st_fields,
            st_maxerr, st_ret, st_nrk4, st_out>>
drVars == <<dr_pc, dr_rank, dr_istep, dr_t, dr_dt, current_step, current_t,
            dr_caught, dr_final>>
vars == <<cs, ts, ck_args, ck_pc, ck_ret, ck_maxerr, ck_evals, logger, viz,
          st_par, st_pc, st_t, st_istep, st_dt, st_cfl, st_sdt, st_fields,
          st_maxerr, st_ret, st_nrk4, st_out,
          dr_pc, dr_rank, dr_istep, dr_t, dr_dt, current_step, current_t,
          dr_caught, dr_final>>

(***************************************************************************)
(* Bounds of the model.                                                    *)
(***************************************************************************)
MaxStep == 5        \* step indices handed to check_step: -MaxStep..MaxStep
MaxInterval == 3    \* intervals handed to check_step: -MaxInterval..MaxInterval
MaxTime == 3        \* times (t, t_final) range over 0..MaxTime ticks
MaxDt == 2          \* time steps range up to MaxDt ticks

NumProcs == 2       \* cooperating processes of a distributed run
MaxCkStep == 2      \* step indices handed to sim_checkpoint: 0..MaxCkStep
MaxCkInterval == 2  \* nstatus, nviz handed to sim_checkpoint: -1..MaxCkInterval
MaxErr == 1         \* per-field errors and tolerances range over 0..MaxErr

\* The spatial dimension of the modelled mesh; the state has dim + 2
\* conserved fields (density, energy, dim momentum components).
dim == 1
NumFields == dim + 2

Steps == (0 - MaxStep)..MaxStep
Intervals == (0 - MaxInterval)..MaxInterval
Times == 0..MaxTime
\* dt handed to the timestep selector: negative, zero and positive values
DtValues == (0 - 1)..MaxDt
\* what get_inviscid_timestep (the discretization's CFL computation) may return
CflDtValues == 1..MaxDt
Procs == 0..(NumProcs - 1)
CkSteps == 0..MaxCkStep
CkIntervals == (0 - 1)..MaxCkInterval
ErrValues == 0..MaxErr
\* parameters['time'] of a stepper run: zero or later
StartTimes == 0..1
\* time steps of a stepper run, and what get_inviscid_timestep returns there
StepDtValues == 1..MaxDt
SdtValues == 1..2
\* the per-field maximum absolute errors of a state against a reference
ErrVecs == [1..NumFields -> ErrValues]
ZeroErr == [i \in 1..NumFields |-> 0]

\* np.max / max over a vector of per-field errors
MaxOf(v) == CHOOSE m \in {v[i] : i \in DOMAIN v} : \A i \in DOMAIN v : v[i] <= m

(***************************************************************************)
(* simutil.check_step                                                      *)
(***************************************************************************)
check_step_nonpositive_never(step, interval) ==
    IF interval <= 0 THEN FALSE
    ELSE IF step % interval = 0 THEN TRUE
    ELSE FALSE

check_step(step, interval) ==
    IF interval = 0 THEN TRUE
    ELSE IF interval < 0 THEN FALSE
    ELSE IF step % interval = 0 THEN TRUE
    ELSE FALSE

(***************************************************************************)
(* simutil.inviscid_sim_timestep.  cfl_dt is the value                     *)
(* get_inviscid_timestep(discr, q=state, cfl, eos) returns; it is read     *)
(* only when constant_cfl is True.                                         *)
(***************************************************************************)
inviscid_sim_timestep_clip_to_final(t, dt, cfl_dt, t_final, constant_cfl) ==
    LET mydt == IF constant_cfl = TRUE THEN cfl_dt ELSE dt
    IN  IF (t + mydt) > t_final THEN t_final ELSE mydt

inviscid_sim_timestep(t, dt, cfl_dt, t_final, constant_cfl) ==
    LET mydt == IF constant_cfl = TRUE THEN cfl_dt ELSE dt
    IN  IF (t + mydt) > t_final THEN t_final - t ELSE mydt

(***************************************************************************)
(* simutil.sim_checkpoint.  Its arguments a: step, nstatus, nviz, exittol, *)
(* exact (exact_soln is not None) and comm (comm is not None).  t, dt,     *)
(* cfl, vizname and the arrays only pass through to the status text and    *)
(* the dump.  proc is the calling process (what comm.Get_rank() returns),  *)
(* max_errors what compare_states returns for its state.                   *)
(***************************************************************************)

\* lines 80-81: the test of the no-op fast path
NothingDue_never(do_viz, do_status) == FALSE

NothingDue(do_viz, do_status) == do_viz = FALSE /\ do_status = FALSE

\* lines 85-88
LocalRank(comm, proc) == IF comm THEN proc ELSE 0

\* lines 93-97
HaveExact_for_status_only(do_viz, do_status, exact) ==
    do_status = TRUE /\ exact

HaveExact(do_viz, do_status, exact) ==
    (do_status = TRUE \/ do_viz = TRUE) /\ exact

\* lines 99-113: the lines a call writes to the logger
StatusLog(proc, rank, do_status, have_exact, maxerr, exittol) ==
    IF do_status = TRUE /\ have_exact = TRUE
    THEN (IF rank = 0
          THEN <<[proc |-> proc, level |-> "info", text |-> "status"]>>
          ELSE <<>>)
         \o (IF maxerr > exittol
             THEN <<[proc |-> proc, level |-> "error", text |-> "failed"]>>
             ELSE <<>>)
    ELSE <<>>

\* lines 89, 99-114: the returned checkpoint_status
CheckpointStatus_at_tolerance(do_status, have_exact, maxerr, exittol) ==
    IF do_status = TRUE /\ have_exact = TRUE /\ maxerr >= exittol
    THEN 1 ELSE 0

CheckpointStatus(do_status, have_exact, maxerr, exittol) ==
    IF do_status = TRUE /\ have_exact = TRUE /\ maxerr > exittol
    THEN 1 ELSE 0

\* lines 116-124: the dump handed to make_output_dump
VizDump(proc, do_viz, have_exact, step) ==
    IF do_viz
    THEN <<[proc |-> proc, step |-> step,
            fields |-> {"conserved", "derived"}
                       \cup (IF have_exact = TRUE
                             THEN {"exact_soln", "residual"} ELSE {})]>>
    ELSE <<>>

\* What one call does: its return value, the lines it logs, the dumps it
\* makes, and how often it calls eos, exact_soln and compare_states.
sim_checkpoint(a, proc, max_errors) ==
    LET do_viz == check_step(a.step, a.nviz)
        do_status == check_step(a.step, a.nstatus)
    IN  IF NothingDue(do_viz, do_status)
        THEN [ret |-> 0, log |-> <<>>, dumps |-> <<>>, maxerr |-> 0,
              evals |-> [eos |-> 0, exact |-> 0, compare |-> 0]]
        ELSE
          LET rank == LocalRank(a.comm, proc)
              have_exact == HaveExact(do_viz, do_status, a.exact)
              compared == do_status = TRUE /\ have_exact = TRUE
              maxerr == IF compared THEN MaxOf(max_errors) ELSE 0
          IN  [ret |-> CheckpointStatus(do_status, have_exact, maxerr,
                                        a.exittol),
               log |-> StatusLog(proc, rank, do_status, have_exact, maxerr,
                                 a.exittol),
               dumps |-> VizDump(proc, do_viz, have_exact, a.step),
               maxerr |-> maxerr,
               evals |-> [eos |-> 1,
                          exact |-> IF have_exact THEN 1 ELSE 0,
                          compare |-> IF compared THEN 1 ELSE 0]]

stIdle ==
    /\ st_par = [time |-> 0, tfinal |-> 0, dt |-> 1, cfl |-> [num |-> 1, den |-> 1],
                 constantcfl |-> FALSE, nstatus |-> 0 - 1, exittol |-> 0]
    /\ st_pc = "idle"
    /\ st_t = 0
    /\ st_istep = 0
    /\ st_dt = 1
    /\ st_cfl = [num |-> 1, den |-> 1]
    /\ st_sdt = 1
    /\ st_fields = ZeroErr
    /\ st_maxerr = 0
    /\ st_ret = 0
    /\ st_nrk4 = 0
    /\ st_out = <<>>

drIdle ==
    /\ dr_pc = "idle"
    /\ dr_rank = 0
    /\ dr_istep = 0
    /\ dr_t = 0
    /\ dr_dt = 0
    /\ current_step = 0
    /\ current_t = 0
    /\ dr_caught = FALSE
    /\ dr_final = <<>>

(***************************************************************************)
(* Specification SpecCheckStep: check_step applied to every pair of        *)
(* arguments of the bounded sets.                                          *)
(***************************************************************************)
csIdle == [pc |-> "idle", step |-> 0, interval |-> 0, ret |-> FALSE]
tsIdle == [pc |-> "idle", t |-> 0, dt |-> 0, cfl_dt |-> 1, t_final |-> 0,
           constant_cfl |-> FALSE, ret |-> 0]
NoEvals == [eos |-> 0, exact |-> 0, compare |-> 0]
ckIdle ==
    /\ ck_args = [step |-> 0, nstatus |-> 0 - 1, nviz |-> 0 - 1, exittol |-> 0,
                  exact |-> FALSE, comm |-> FALSE]
    /\ ck_pc = [p \in Procs |-> "idle"]
    /\ ck_ret = [p \in Procs |-> 0]
    /\ ck_maxerr = [p \in Procs |-> 0]
    /\ ck_evals = [p \in Procs |-> NoEvals]
    /\ logger = <<>>
    /\ viz = <<>>

InitCheckStep ==
    /\ \E s \in Steps, i \in Intervals :
          cs = [pc |-> "call", step |-> s, interval |-> i, ret |-> FALSE]
    /\ ts = tsIdle
    /\ ckIdle
    /\ stIdle
    /\ drIdle

CheckStepCall ==
    /\ cs.pc = "call"
    /\ cs' = [cs EXCEPT !.pc = "returned",
                        !.ret = check_step(cs.step, cs.interval)]
    /\ UNCHANGED <<ts, ckVars, stVars, drVars>>

NextCheckStep == CheckStepCall

SpecCheckStep == InitCheckStep /\ [][NextCheckStep]_vars

(***************************************************************************)
(* Specification SpecTimestep: inviscid_sim_timestep applied to every      *)
(* combination of arguments of the bounded sets.                           *)
(***************************************************************************)
InitTimestep ==
    /\ cs = csIdle
    /\ \E t \in Times, dt \in DtValues, c \in CflDtValues, tf \in Times,
          cc \in BOOLEAN :
          ts = [pc |-> "call", t |-> t, dt |-> dt, cfl_dt |-> c,
                t_final |-> tf, constant_cfl |-> cc, ret |-> 0]
    /\ ckIdle
    /\ stIdle
    /\ drIdle

TimestepCall ==
    /\ ts.pc = "call"
    /\ ts' = [ts EXCEPT !.pc = "returned",
                        !.ret = inviscid_sim_timestep(ts.t, ts.dt, ts.cfl_dt,
                                                      ts.t_final,
                                                      ts.constant_cfl)]
    /\ UNCHANGED <<cs, ckVars, stVars, drVars>>

NextTimestep == TimestepCall

SpecTimestep == InitTimestep /\ [][NextTimestep]_vars

(***************************************************************************)
(* Specification SpecCheckpoint: every process of a run makes the same     *)
(* sim_checkpoint call, each on its own part of the state.                 *)
(***************************************************************************)
InitCheckpoint ==
    /\ cs = csIdle
    /\ ts = tsIdle
    /\ \E s \in CkSteps, ns \in CkIntervals, nv \in CkIntervals,
          tol \in ErrValues, ex \in BOOLEAN, cm \in BOOLEAN :
          ck_args = [step |-> s, nstatus |-> ns, nviz |-> nv, exittol |-> tol,
                     exact |-> ex, comm |-> cm]
    /\ ck_pc = [p \in Procs |-> "call"]
    /\ ck_ret = [p \in Procs |-> 0]
    /\ ck_maxerr = [p \in Procs |-> 0]
    /\ ck_evals = [p \in Procs |-> NoEvals]
    /\ logger = <<>>
    /\ viz = <<>>
    /\ stIdle
    /\ drIdle

\* compare_states is called, and its result read, only on a step due for
\* status with a reference solution configured (lines 99-106)
ComparedErrs(a) ==
    IF check_step(a.step, a.nstatus) = TRUE /\ a.exact THEN ErrVecs
    ELSE {ZeroErr}

SimCheckpoint(p) ==
    /\ ck_pc[p] = "call"
    /\ \E max_errors \in ComparedErrs(ck_args) :
          LET r == sim_checkpoint(ck_args, p, max_errors)
          IN  /\ ck_ret' = [ck_ret EXCEPT ![p] = r.ret]
              /\ ck_maxerr' = [ck_maxerr EXCEPT ![p] = r.maxerr]
              /\ ck_evals' = [ck_evals EXCEPT ![p] = r.evals]
              /\ logger' = logger \o r.log
              /\ viz' = viz \o r.dumps
    /\ ck_pc' = [ck_pc EXCEPT ![p] = "returned"]
    /\ UNCHANGED <<ck_args, utilVars, stVars, drVars>>

NextCheckpoint == \E p \in Procs : SimCheckpoint(p)

SpecCheckpoint == InitCheckpoint /\ [][NextCheckpoint]_vars

\* what the call's arguments make due
DoStatus == check_step(ck_args.step, ck_args.nstatus) = TRUE
DoViz == check_step(ck_args.step, ck_args.nviz) = TRUE
\* the lines of the logger that process p wrote at the given level
LinesOf(p, level) ==
    {i \in DOMAIN logger : logger[i].proc = p /\ logger[i].level = level}
DumpsOf(p) == {i \in DOMAIN viz : viz[i].proc = p}

(***************************************************************************)
(* steppers.euler_flow_stepper, one action per position in its body.       *)
(* fields is known to the control logic only through its error against     *)
(* initializer(t, nodes); rk4_step and get_inviscid_timestep are the       *)
(* discretization's, so the error after a step and the stable time step    *)
(* are any value of their sets.                                            *)
(***************************************************************************)
InitStepper ==
    /\ cs = csIdle
    /\ ts = tsIdle
    /\ ckIdle
    /\ \E t0 \in StartTimes, tf \in Times, d \in StepDtValues,
          cc \in BOOLEAN, ns \in CkIntervals, tol \in ErrValues :
          st_par = [time |-> t0, tfinal |-> tf, dt |-> d,
                    cfl |-> [num |-> 1, den |-> 1],
                    constantcfl |-> cc, nstatus |-> ns, exittol |-> tol]
    /\ st_pc = "entry"
    /\ st_t = st_par.time
    /\ st_istep = 0
    /\ st_dt = st_par.dt
    /\ st_cfl = st_par.cfl
    /\ st_sdt = 1
    /\ st_fields = ZeroErr
    /\ st_maxerr = 0
    /\ st_ret = 0
    /\ st_nrk4 = 0
    /\ st_out = <<>>
    /\ drIdle

\* lines 89-114: write_soln logs the status of (istep, t), writes the vtk
\* file of istep and returns the per-field errors of fields
write_soln_out == [kind |-> "write_soln", istep |-> st_istep, t |-> st_t]
write_soln_ret == st_fields

\* line 63: the final time is already reached
NothingToDo_when_past(t_final, t) == t_final < t

NothingToDo(t_final, t) == t_final <= t

\* lines 63-64: nothing to do
EarlyReturn ==
    /\ st_pc = "entry"
    /\ NothingToDo(st_par.tfinal, st_t)
    /\ st_ret' = 0
    /\ st_pc' = "returned"
    /\ UNCHANGED <<st_par, st_t, st_istep, st_dt, st_cfl, st_sdt, st_fields,
                   st_maxerr, st_nrk4, st_out>>
    /\ UNCHANGED <<utilVars, ckVars, drVars>>

\* lines 66-87: fields = initializer(0, nodes), the first sdt, the
\* initial message
Setup ==
    /\ st_pc = "entry"
    /\ ~NothingToDo(st_par.tfinal, st_t)
    /\ st_istep' = 0
    /\ \E e \in (IF st_t = 0 THEN {ZeroErr} ELSE ErrVecs) : st_fields' = e
    /\ \E d \in SdtValues : st_sdt' = d
    /\ st_out' = st_out \o <<[kind |-> "init", istep |-> 0, t |-> st_t]>>
    /\ st_pc' = "loop"
    /\ UNCHANGED <<st_par, st_t, st_dt, st_cfl, st_maxerr, st_ret, st_nrk4>>
    /\ UNCHANGED <<utilVars, ckVars, drVars>>

\* lines 119-124: the loop test; in the loop, dt or cfl is set
LoopEnter ==
    /\ st_pc = "loop"
    /\ st_t < st_par.tfinal
    /\ IF st_par.constantcfl = TRUE
       THEN st_dt' = st_sdt /\ UNCHANGED st_cfl
       ELSE st_cfl' = [num |-> st_dt, den |-> st_sdt] /\ UNCHANGED st_dt
    /\ st_pc' = "status"
    /\ UNCHANGED <<st_par, st_t, st_istep, st_sdt, st_fields, st_maxerr,
                   st_ret, st_nrk4, st_out>>
    /\ UNCHANGED <<utilVars, ckVars, drVars>>

LoopExit ==
    /\ st_pc = "loop"
    /\ ~(st_t < st_par.tfinal)
    /\ st_pc' = "final"
    /\ UNCHANGED <<st_par, st_t, st_istep, st_dt, st_cfl, st_sdt, st_fields,
                   st_maxerr, st_ret, st_nrk4, st_out>>
    /\ UNCHANGED <<utilVars, ckVars, drVars>>

\* lines 126-127: the gate of the report inside the loop
StatusGate_every_step(istep, nstepstatus) == nstepstatus > 0

StatusGate(istep, nstepstatus) ==
    IF nstepstatus > 0 THEN istep % nstepstatus = 0 ELSE FALSE

\* lines 126-128: the report inside the loop; what write_soln returns is
\* dropped
Status ==
    /\ st_pc = "status"
    /\ IF StatusGate(st_istep, st_par.nstatus)
       THEN st_out' = st_out \o <<write_soln_out>>
       ELSE UNCHANGED st_out
    /\ st_pc' = "advance"
    /\ UNCHANGED <<st_par, st_t, st_istep, st_dt, st_cfl, st_sdt, st_fields,
                   st_maxerr, st_ret, st_nrk4>>
    /\ UNCHANGED <<utilVars, ckVars, drVars>>

\* lines 130-134: one integrator step
Advance_clock_by_configured_dt ==
    /\ st_pc = "advance"
    /\ \E e \in ErrVecs : st_fields' = e
    /\ st_nrk4' = st_nrk4 + 1
    /\ st_t' = st_t + st_par.dt
    /\ st_istep' = st_istep + 1
    /\ \E d \in SdtValues : st_sdt' = d
    /\ st_pc' = "loop"
    /\ UNCHANGED <<st_par, st_dt, st_cfl, st_maxerr, st_ret, st_out>>
    /\ UNCHANGED <<utilVars, ckVars, drVars>>

Advance ==
    /\ st_pc = "advance"
    /\ \E e \in ErrVecs : st_fields' = e
    /\ st_nrk4' = st_nrk4 + 1
    /\ st_t' = st_t + st_dt
    /\ st_istep' = st_istep + 1
    /\ \E d \in SdtValues : st_sdt' = d
    /\ st_pc' = "loop"
    /\ UNCHANGED <<st_par, st_dt, st_cfl, st_maxerr, st_ret, st_out>>
    /\ UNCHANGED <<utilVars, ckVars, drVars>>

\* lines 136-150: the final dump, or the error computed directly
Final ==
    /\ st_pc = "final"
    /\ IF st_par.nstatus > 0
       THEN /\ st_out' = st_out \o <<[kind |-> "final dump", istep |-> st_istep,
                                      t |-> st_t], write_soln_out>>
            /\ st_maxerr' = MaxOf(write_soln_ret)
       ELSE /\ st_maxerr' = MaxOf(st_fields)
            /\ UNCHANGED st_out
    /\ st_pc' = "check"
    /\ UNCHANGED <<st_par, st_t, st_istep, st_dt, st_cfl, st_sdt, st_fields,
                   st_ret, st_nrk4>>
    /\ UNCHANGED <<utilVars, ckVars, drVars>>

\* line 152: the error of the final state is beyond the tolerance
ExceedsTol_or_meets(maxerr, exittol) == maxerr >= exittol

ExceedsTol(maxerr, exittol) == maxerr > exittol

\* lines 152-156
Raise ==
    /\ st_pc = "check"
    /\ ExceedsTol(st_maxerr, st_par.exittol)
    /\ st_pc' = "raised"
    /\ UNCHANGED <<st_par, st_t, st_istep, st_dt, st_cfl, st_sdt, st_fields,
                   st_maxerr, st_ret, st_nrk4, st_out>>
    /\ UNCHANGED <<utilVars, ckVars, drVars>>

Return ==
    /\ st_pc = "check"
    /\ ~ExceedsTol(st_maxerr, st_par.exittol)
    /\ st_out' = st_out \o <<[kind |-> "goodbye", istep |-> st_istep,
                              t |-> st_t]>>
    /\ st_ret' = st_maxerr
    /\ st_pc' = "returned"
    /\ UNCHANGED <<st_par, st_t, st_istep, st_dt, st_cfl, st_sdt, st_fields,
                   st_maxerr, st_nrk4>>
    /\ UNCHANGED <<utilVars, ckVars, drVars>>

NextStepper ==
    \/ EarlyReturn
    \/ Setup
    \/ LoopEnter
    \/ LoopExit
    \/ Status
    \/ Advance
    \/ Final
    \/ Raise
    \/ Return

SpecStepper == InitStepper /\ [][NextStepper]_vars

\* the write_soln calls made so far
Reports == {i \in DOMAIN st_out : st_out[i].kind = "write_soln"}
\* the report of the loop was made at the current (istep, t) and the step
\* that follows it is still to be taken
ReportedHere ==
    /\ st_pc = "advance"
    /\ Len(st_out) > 0
    /\ st_out[Len(st_out)] = write_soln_out
\* the run has ended: it returned or raised
StepperEnded == st_pc \in {"returned", "raised"}

(***************************************************************************)
(* examples/pulse-mpi.py main, as run by one process of the job.  Its      *)
(* settings are literals of main; times are in ticks of current_dt         *)
(* (1e-5), so t_final = 1e-4 is 10 ticks.                                  *)
(***************************************************************************)
main_t_final == 10      \* t_final = .0001
main_current_dt == 1    \* current_dt = .00001
main_nstatus == 10      \* nstatus = 10
main_nviz == 10         \* nviz = 10
main_exittol == 100     \* exittol = 100.0
main_t0 == 0            \* current_t = 0, also checkpoint_t

\* lines 140-142: get_timestep, inviscid_sim_timestep with t bound to the
\* initial current_t, the fixed current_dt and constant_cfl False
get_timestep == inviscid_sim_timestep(main_t0, main_current_dt, 1,
                                      main_t_final, FALSE)

\* lines 148-152: my_checkpoint hands sim_checkpoint no exact_soln
my_checkpoint(step) ==
    sim_checkpoint([step |-> step, nstatus |-> main_nstatus,
                    nviz |-> main_nviz, exittol |-> main_exittol,
                    exact |-> FALSE, comm |-> TRUE], dr_rank, ZeroErr)

InitDriver ==
    /\ cs = csIdle
    /\ ts = tsIdle
    /\ ckIdle
    /\ stIdle
    /\ dr_pc = "loop"
    /\ dr_rank \in Procs
    /\ dr_istep = 0
    /\ dr_t = main_t0
    /\ dr_dt = main_current_dt
    /\ current_step = 0
    /\ current_t = main_t0
    /\ dr_caught = FALSE
    /\ dr_final = <<>>

(***************************************************************************)
(* advance_state(rhs, timestepper, checkpoint, get_timestep, state, t,     *)
(* t_final) is imported from mirgecom.steppers but is not in the           *)
(* steppers.py at hand, and neither is the ExactSolutionMismatch that main *)
(* catches.  The loop below follows the design's stepping loop in its      *)
(* report-then-step order: while t < t_final, take dt from get_timestep,   *)
(* checkpoint (step, t, dt, state), step, advance the clock.  A checkpoint *)
(* that signals divergence ends the loop with the mismatch signal carrying *)
(* (step, t, state); where the signal is raised is not in the code at      *)
(* hand, so any checkpoint inside the loop may raise it.                   *)
(***************************************************************************)
AsLoopEnter ==
    /\ dr_pc = "loop"
    /\ dr_t < main_t_final
    /\ dr_dt' = get_timestep
    /\ dr_pc' = "checkpoint"
    /\ UNCHANGED <<dr_rank, dr_istep, dr_t, current_step, current_t, dr_caught, dr_final>>
    /\ UNCHANGED <<utilVars, ckVars, stVars>>

\* the loop is over: advance_state returns (step, t, state), which main
\* takes over (lines 155-159)
AsReturn ==
    /\ dr_pc = "loop"
    /\ ~(dr_t < main_t_final)
    /\ current_step' = dr_istep
    /\ current_t' = dr_t
    /\ dr_pc' = "final"
    /\ UNCHANGED <<dr_rank, dr_istep, dr_t, dr_dt, dr_caught, dr_final>>
    /\ UNCHANGED <<utilVars, ckVars, stVars>>

\* the checkpoint made inside the loop reports no divergence
AsCheckpointOk ==
    /\ dr_pc = "checkpoint"
    /\ LET r == my_checkpoint(dr_istep)
       IN  /\ r.ret = 0
           /\ logger' = logger \o r.log
           /\ viz' = viz \o r.dumps
    /\ dr_pc' = "step"
    /\ UNCHANGED <<dr_rank, dr_istep, dr_t, dr_dt, current_step, current_t,
                   dr_caught, dr_final>>
    /\ UNCHANGED <<utilVars, stVars, ck_args, ck_pc, ck_ret, ck_maxerr,
                   ck_evals>>

\* the checkpoint made inside the loop signals divergence: the mismatch
\* signal leaves advance_state and main's handler takes over its
\* (step, t, state) (lines 160-163)
AsMismatch ==
    /\ dr_pc = "checkpoint"
    /\ LET r == my_checkpoint(dr_istep)
       IN  /\ logger' = logger \o r.log
           /\ viz' = viz \o r.dumps
    /\ current_step' = dr_istep
    /\ current_t' = dr_t
    /\ dr_caught' = TRUE
    /\ dr_pc' = "final"
    /\ UNCHANGED <<dr_rank, dr_istep, dr_t, dr_dt, dr_final>>
    /\ UNCHANGED <<utilVars, stVars, ck_args, ck_pc, ck_ret, ck_maxerr,
                   ck_evals>>

\* state = timestepper(state, t, dt, rhs); t += dt; step += 1
AsStep ==
    /\ dr_pc = "step"
    /\ dr_t' = dr_t + dr_dt
    /\ dr_istep' = dr_istep + 1
    /\ dr_pc' = "loop"
    /\ UNCHANGED <<dr_rank, dr_dt, current_step, current_t, dr_caught, dr_final>>
    /\ UNCHANGED <<utilVars, ckVars, stVars>>

\* lines 166-170: the final checkpoint
FinalCheckpoint ==
    /\ dr_pc = "final"
    /\ LET r == my_checkpoint(current_step)
           note == IF dr_rank = 0
                   THEN <<[proc |-> dr_rank, level |-> "info",
                           text |-> "final"]>>
                   ELSE <<>>
       IN  /\ logger' = logger \o note \o r.log
           /\ viz' = viz \o r.dumps
    /\ dr_final' = Append(dr_final, [step |-> current_step, t |-> current_t,
                                      dt |-> current_t - main_t0])
    /\ dr_pc' = "validate"
    /\ UNCHANGED <<dr_rank, dr_istep, dr_t, dr_dt, current_step, current_t,
                   dr_caught>>
    /\ UNCHANGED <<utilVars, stVars, ck_args, ck_pc, ck_ret, ck_maxerr,
                   ck_evals>>

\* line 172: the run stopped short of t_final
FinalTimeShort_or_equal(t, t_final) == t - t_final <= 0

FinalTimeShort(t, t_final) == t - t_final < 0

\* lines 172-173
ExitAbnormally ==
    /\ dr_pc = "validate"
    /\ FinalTimeShort(current_t, main_t_final)
    /\ dr_pc' = "abnormal"
    /\ UNCHANGED <<dr_rank, dr_istep, dr_t, dr_dt, current_step, current_t,
                   dr_caught, dr_final>>
    /\ UNCHANGED <<utilVars, ckVars, stVars>>

Exit ==
    /\ dr_pc = "validate"
    /\ ~FinalTimeShort(current_t, main_t_final)
    /\ dr_pc' = "exited"
    /\ UNCHANGED <<dr_rank, dr_istep, dr_t, dr_dt, current_step, current_t,
                   dr_caught, dr_final>>
    /\ UNCHANGED <<utilVars, ckVars, stVars>>

NextDriver ==
    \/ AsLoopEnter
    \/ AsReturn
    \/ AsCheckpointOk
    \/ AsMismatch
    \/ AsStep
    \/ FinalCheckpoint
    \/ ExitAbnormally
    \/ Exit

SpecDriver == InitDriver /\ [][NextDriver]_vars

(***************************************************************************)
(* C1: check_step is defined for every integer step and interval; it       *)
(* returns True for every step when interval = 0, False for every step     *)
(* when interval < 0, and for interval > 0 True exactly when step is a     *)
(* multiple of interval; so step 0 is due for every interval >= 0.         *)
(***************************************************************************)
C1_CheckStepContract ==
    /\ cs.pc = "call" => ENABLED CheckStepCall
    /\ cs.pc = "returned" =>
          /\ cs.ret \in BOOLEAN
          /\ cs.interval = 0 => cs.ret = TRUE
          /\ cs.interval < 0 => cs.ret = FALSE
          /\ cs.interval > 0 =>
                (cs.ret = TRUE <=> \E k \in Steps : cs.step = k * cs.interval)
          /\ (cs.step = 0 /\ cs.interval >= 0) => cs.ret = TRUE

C1_Witness ==
    /\ cs.pc = "returned"
    /\ cs.interval > 1
    /\ cs.step < 0
    /\ cs.ret = TRUE

(***************************************************************************)
(* C2: in fixed-dt mode (constant_cfl not True) and for t < t_final the    *)
(* returned dt' satisfies t + dt' <= t_final, equals dt whenever           *)
(* t + dt <= t_final, and equals t_final - t otherwise.                    *)
(***************************************************************************)
C2_TimestepClipped ==
    (ts.pc = "returned" /\ ts.constant_cfl # TRUE /\ ts.t < ts.t_final) =>
        /\ ts.t + ts.ret <= ts.t_final
        /\ ts.t + ts.dt <= ts.t_final => ts.ret = ts.dt
        /\ ts.t + ts.dt > ts.t_final => ts.ret = ts.t_final - ts.t

C2_Witness ==
    /\ ts.pc = "returned"
    /\ ts.constant_cfl = FALSE
    /\ 0 < ts.t
    /\ ts.t < ts.t_final
    /\ ts.t + ts.dt > ts.t_final
    /\ ts.ret = ts.t_final - ts.t
    /\ ts.ret < ts.dt

(***************************************************************************)
(* C4: when the step is due for neither status nor visualization,          *)
(* sim_checkpoint returns 0 and does nothing else: it evaluates neither    *)
(* the reference solution nor the equation of state, writes nothing to     *)
(* the logger and hands nothing to the visualization sink.                 *)
(***************************************************************************)
C4_NoOpFastPath ==
    (~DoStatus /\ ~DoViz) =>
        /\ \A p \in Procs : ck_ret[p] = 0 /\ ck_evals[p] = NoEvals
        /\ logger = <<>>
        /\ viz = <<>>

C4_Witness ==
    /\ ~DoStatus
    /\ ~DoViz
    /\ ck_args.nstatus > 0
    /\ ck_args.nviz > 0
    /\ ck_args.exact
    /\ \A p \in Procs : ck_pc[p] = "returned"

(***************************************************************************)
(* C5: sim_checkpoint returns status 1 exactly when the step is due for    *)
(* status, a reference solution is configured and the maximum per-field    *)
(* error is strictly greater than exittol; in every other case it returns  *)
(* 0.  The call always returns: divergence is never raised.                *)
(***************************************************************************)
C5_DivergenceStatus ==
    \A p \in Procs :
        /\ ck_pc[p] = "call" => ENABLED SimCheckpoint(p)
        /\ ck_pc[p] = "returned" =>
              /\ ck_ret[p] \in {0, 1}
              /\ ck_ret[p] = 1 <=>
                    (DoStatus /\ ck_args.exact
                     /\ ck_maxerr[p] > ck_args.exittol)
              /\ (DoStatus /\ ck_args.exact) => ck_evals[p].compare = 1

C5_Witness ==
    \E p, q \in Procs :
        /\ ck_pc[p] = "returned" /\ ck_pc[q] = "returned"
        /\ DoStatus /\ ck_args.exact
        /\ ck_ret[p] = 1
        /\ ck_ret[q] = 0 /\ ck_maxerr[q] = ck_args.exittol

(***************************************************************************)
(* C6: on every sim_checkpoint call whose step is due for status, rank 0   *)
(* emits exactly one status line, with or without a reference solution.    *)
(***************************************************************************)
C6_OneStatusLinePerDueCall ==
    (ck_pc[0] = "returned" /\ DoStatus) =>
        Cardinality(LinesOf(0, "info")) = 1

(***************************************************************************)
(* C7: when the processes of a run (ranks 0..N-1) make the same            *)
(* sim_checkpoint call, only rank 0 writes to the logger: no other rank    *)
(* emits a status line or the divergence error line.                       *)
(***************************************************************************)
C7_OnlyRankZeroLogs ==
    ck_args.comm => \A i \in DOMAIN logger : logger[i].proc = 0

(***************************************************************************)
(* C3: in every run of a stepping loop the clock t never exceeds t_final,  *)
(* because each step uses a dt clipped against the clock's current time    *)
(* (stated here of euler_flow_stepper's while-loop).                       *)
(***************************************************************************)
C3_ClockNeverExceedsFinal ==
    st_nrk4 > 0 => st_t <= st_par.tfinal

(***************************************************************************)
(* C8: once a report made inside euler_flow_stepper's loop (write_soln)    *)
(* observes an error above exittol, the loop stops at once: no further     *)
(* integrator step is taken after that report.                             *)
(***************************************************************************)
C8_StopsOnDivergence ==
    [][(ReportedHere /\ MaxOf(st_fields) > st_par.exittol)
          => st_nrk4' = st_nrk4]_vars

(***************************************************************************)
(* C9: every run that ends is followed by one final report of the          *)
(* terminal (step, t, state), made for every value of the status interval  *)
(* and every terminal step index (stated here of euler_flow_stepper's      *)
(* post-loop final dump).                                                  *)
(***************************************************************************)
C9_FinalReportAlways ==
    (StepperEnded /\ st_nrk4 > 0) =>
        \E i \in Reports : st_out[i].istep = st_istep /\ st_out[i].t = st_t

CeilDiv(a, b) == (a + b - 1) \div b

FixedDtRun ==
    /\ st_par.constantcfl = FALSE
    /\ st_par.dt > 0
    /\ st_par.time < st_par.tfinal

(***************************************************************************)
(* C11: for a fixed positive dt and t_start < t_final, the loop of         *)
(* euler_flow_stepper (fixed-dt mode) ends after exactly                   *)
(* ceil((t_final - t_start) / dt) iterations, and when dt does not divide  *)
(* the interval the dt of the last iteration is clipped to t_final - t.    *)
(***************************************************************************)
C11_IterationsAndLastDtClipped ==
    FixedDtRun =>
        /\ st_pc = "final" =>
              st_istep = CeilDiv(st_par.tfinal - st_par.time, st_par.dt)
        /\ (st_pc = "advance" /\ st_t + st_par.dt > st_par.tfinal) =>
              st_dt = st_par.tfinal - st_t

\* the part of C11 that counts the iterations
C11_IterationCount ==
    (FixedDtRun /\ st_pc = "final") =>
        /\ st_istep = CeilDiv(st_par.tfinal - st_par.time, st_par.dt)
        /\ st_nrk4 = st_istep

\* the loop was entered: at a loop head, inside an iteration or after it
InLoopOrAfter ==
    st_pc \in {"loop", "status", "advance", "final", "check", "returned",
               "raised"}

(***************************************************************************)
(* C12: in euler_flow_stepper's loop the clock is consistent with the step *)
(* counter: each iteration increases istep by exactly 1 and t by exactly   *)
(* the dt handed to the integrator in that iteration, so in fixed-dt mode  *)
(* t = t_start + istep * dt at every loop head and at exit.                *)
(***************************************************************************)
C12_ClockMatchesStepCounter ==
    /\ [](InLoopOrAfter =>
            /\ st_istep = st_nrk4
            /\ st_par.constantcfl = FALSE =>
                  st_t = st_par.time + st_istep * st_par.dt)
    /\ [][(st_nrk4' # st_nrk4 \/ st_istep' # st_istep \/ st_t' # st_t) =>
              /\ st_pc = "advance"
              /\ st_nrk4' = st_nrk4 + 1
              /\ st_istep' = st_istep + 1
              /\ st_t' = st_t + st_dt]_vars

C12_Witness ==
    /\ st_pc = "final"
    /\ st_par.constantcfl = TRUE
    /\ st_istep = 2
    /\ st_t = st_par.time + 3
    /\ st_par.dt = 1

(***************************************************************************)
(* C13: in main the final my_checkpoint call is made before the            *)
(* abnormal-exit check, whether advance_state returned or the mismatch     *)
(* signal was caught, and main raises 'Simulation exited abnormally'       *)
(* exactly when the final time is strictly less than t_final.              *)
(***************************************************************************)
C13_FinalCheckpointThenExitCheck ==
    /\ dr_pc \in {"loop", "checkpoint", "step", "final"} => dr_final = <<>>
    /\ dr_pc \in {"validate", "abnormal", "exited"} =>
          dr_final = <<[step |-> current_step, t |-> current_t,
                        dt |-> current_t - main_t0]>>
    /\ dr_pc = "validate" =>
          /\ ENABLED ExitAbnormally <=> current_t < main_t_final
          /\ ENABLED Exit <=> ~(current_t < main_t_final)
    /\ dr_pc = "abnormal" => current_t < main_t_final
    /\ dr_pc = "exited" => ~(current_t < main_t_final)

C13_Witness ==
    /\ dr_caught
    /\ dr_pc = "abnormal"
    /\ Len(dr_final) = 1
    /\ current_t < main_t_final

(***************************************************************************)
(* C14: on every sim_checkpoint call whose step is due for visualization   *)
(* exactly one dump is handed to the visualization sink, and its field     *)
(* list holds the 'exact_soln' and 'residual' entries if and only if a     *)
(* reference solution is configured; a call that is not due for            *)
(* visualization makes no dump.                                            *)
(***************************************************************************)
C14_OneDumpPerDueCall ==
    \A p \in Procs :
        /\ ck_pc[p] # "returned" => DumpsOf(p) = {}
        /\ ck_pc[p] = "returned" =>
              /\ Cardinality(DumpsOf(p)) = IF DoViz THEN 1 ELSE 0
              /\ \A i \in DumpsOf(p) :
                    /\ viz[i].step = ck_args.step
                    /\ {"conserved", "derived"} \subseteq viz[i].fields
                    /\ "exact_soln" \in viz[i].fields <=> ck_args.exact
                    /\ "residual" \in viz[i].fields <=> ck_args.exact

C14_Witness ==
    \E p \in Procs :
        /\ ck_pc[p] = "returned"
        /\ DoViz /\ ~DoStatus
        /\ ck_args.exact
        /\ \E i \in DumpsOf(p) :
              {"exact_soln", "residual"} \subseteq viz[i].fields

\* the write_soln calls made so far that reported step index i
ReportsOf(i) == {r \in Reports : st_out[r].istep = i}

(***************************************************************************)
(* C15: euler_flow_stepper reports in report-then-step order and reports   *)
(* each step index at most once: with nstepstatus > 0 the report of the    *)
(* loop for step i is made before the integrator advances from step i and  *)
(* exactly for the i below the final step with i mod nstepstatus = 0, and  *)
(* the final dump after the loop reports only the terminal step index,     *)
(* which no report of the loop has covered.                                *)
(***************************************************************************)
C15_ReportThenStepAtMostOnce ==
    /\ [](st_par.nstatus > 0 =>
            /\ \A i \in 0..(st_istep - 1) :
                  Cardinality(ReportsOf(i)) =
                      IF i % st_par.nstatus = 0 THEN 1 ELSE 0
            /\ Cardinality(ReportsOf(st_istep)) =
                  IF \/ st_pc = "advance" /\ st_istep % st_par.nstatus = 0
                     \/ st_pc \in {"check", "returned", "raised"}
                       /\ st_par.time < st_par.tfinal
                  THEN 1 ELSE 0
            /\ \A r \in Reports :
                  /\ st_out[r].istep <= st_istep
                  /\ st_par.constantcfl = FALSE =>
                        st_out[r].t = st_par.time + st_out[r].istep * st_par.dt
            /\ \A r1, r2 \in Reports :
                  r1 < r2 => st_out[r1].istep < st_out[r2].istep)
    /\ [][(st_nrk4' # st_nrk4 /\ st_par.nstatus > 0
           /\ st_istep % st_par.nstatus = 0) =>
              /\ ReportedHere
              /\ st_out' = st_out]_vars

C15_Witness ==
    /\ st_par.nstatus = 2
    /\ st_pc = "returned"
    /\ st_istep = 3
    /\ Cardinality(ReportsOf(0)) = 1
    /\ Cardinality(ReportsOf(2)) = 1
    /\ Cardinality(ReportsOf(3)) = 1
    /\ Cardinality(Reports) = 3

\* the final dump was written: its message and its write_soln call are the
\* last two outputs so far
FinalDumpWritten ==
    /\ Len(st_out) >= 2
    /\ st_out[Len(st_out) - 1] =
          [kind |-> "final dump", istep |-> st_istep, t |-> st_t]
    /\ st_out[Len(st_out)] = write_soln_out

(***************************************************************************)
(* C16: after its loop euler_flow_stepper raises ValueError if and only if *)
(* the maximum error of the final state against the reference solution is  *)
(* strictly greater than exittol, and otherwise returns that maximum       *)
(* error; the decision is the same whether the error came from the final   *)
(* dump (nstepstatus > 0) or was computed directly (nstepstatus <= 0),     *)
(* and a final dump is written before the error is raised.                 *)
(***************************************************************************)
C16_RaisesIffErrorExceedsTol ==
    /\ st_pc = "check" =>
          /\ st_maxerr = MaxOf(st_fields)
          /\ ENABLED Raise <=> MaxOf(st_fields) > st_par.exittol
          /\ ENABLED Return <=> ~(MaxOf(st_fields) > st_par.exittol)
          /\ FinalDumpWritten <=> st_par.nstatus > 0
    /\ st_pc = "raised" =>
          /\ MaxOf(st_fields) > st_par.exittol
          /\ FinalDumpWritten <=> st_par.nstatus > 0
    /\ (st_pc = "returned" /\ st_par.time < st_par.tfinal) =>
          /\ ~(MaxOf(st_fields) > st_par.exittol)
          /\ st_ret = MaxOf(st_fields)
    /\ st_par.nstatus <= 0 =>
          \A i \in DOMAIN st_out : st_out[i].kind # "final dump"

C16_Witness ==
    /\ st_pc = "raised"
    /\ st_par.nstatus > 0
    /\ FinalDumpWritten
    /\ st_par.exittol = 0
    /\ MaxOf(st_fields) = 1

(***************************************************************************)
(* C17: the gate of the report inside euler_flow_stepper's loop agrees     *)
(* with check_step for every step index and every interval: the loop       *)
(* reports at istep exactly when check_step(istep, nstepstatus) is True,   *)
(* for interval 0 and negative intervals too.                              *)
(***************************************************************************)
C17_LoopGateAgreesWithCheckStep ==
    st_pc = "advance" =>
        (ReportedHere <=> check_step(st_istep, st_par.nstatus) = TRUE)

(***************************************************************************)
(* C18: called with t_final <= t, euler_flow_stepper returns 0.0 at once:  *)
(* it takes no integrator step, makes no report or dump, and compares      *)
(* nothing against the reference solution or exittol, so the divergence    *)
(* ValueError is never raised on this path.                                *)
(***************************************************************************)
C18_NothingToDoReturnsZero ==
    st_par.tfinal <= st_par.time =>
        /\ st_pc \in {"entry", "returned"}
        /\ st_pc = "entry" => (ENABLED EarlyReturn /\ ~ENABLED Setup)
        /\ st_pc = "returned" => st_ret = 0
        /\ st_nrk4 = 0
        /\ st_istep = 0
        /\ st_t = st_par.time
        /\ st_out = <<>>
        /\ st_maxerr = 0

C18_Witness ==
    /\ st_par.tfinal = st_par.time
    /\ st_par.time = 1
    /\ st_par.exittol = 0
    /\ st_pc = "returned"
    /\ st_ret = 0
    /\ st_out = <<>>

====
